---- MODULE Spec2Model ----
(***************************************************************************)
(* Model of app/config/mail.js: the temporary-link e-mail workflow.        *)
(*                                                                         *)
(* sendActivationEmail and sendResetEmail render a template, create a      *)
(* temporary_url row and hand the composed message to the mail transport.  *)
(* Every handler of the JavaScript event loop (a function body, a promise  *)
(* continuation, a callback) is one atomic action; the external            *)
(* collaborators (User.findOne, app.render, TemporaryURL.create,           *)
(* transporter.sendMail, Date.now, the caller's done callback) answer      *)
(* nondeterministically.                                                   *)
(***************************************************************************)
EXTENDS Integers, Sequences, FiniteSets, TLC

(***************************************************************************)
(* Bounds of the model.                                                    *)
(***************************************************************************)
\* number of invocations of the two public operations that may be in flight
MaxInvocations == 2
\* Date.now() answers a value in 0 .. MaxClock
MaxClock == 1

Invocations == 1 .. MaxInvocations
ClockValues == 0 .. MaxClock

(***************************************************************************)
(* JavaScript values that are not records.                                 *)
(***************************************************************************)
Null == "null"
Undefined == "undefined"
False == "false"

\* the value a handler sees for a property the object literal does not have
Get(obj, field) == IF field \in DOMAIN obj THEN obj[field] ELSE Undefined

\* x == null in JavaScript: true of null and of undefined only
IsNullish(x) == x \in {Null, Undefined}

\* if (x) of JavaScript, for the values an error or a timestamp argument takes
Truthy(x) == x \notin {Null, Undefined, False, ""}

(***************************************************************************)
(* Program constants.                                                      *)
(***************************************************************************)
adminEmailAddress == "no-reply@nealblim.com"
ActivateTimespan == 24
ResetTimespan == 2
MsPerHour == 3600000
NotActivatedMessage == "You must activate your account first."

(***************************************************************************)
(* The user table behind User.findOne, and the requests callers make.      *)
(***************************************************************************)
Users ==
    { [id |-> 1, login_key |-> "ann@x.com", user_active |-> TRUE,  last_login |-> Null],
      [id |-> 2, login_key |-> "bob@x.com", user_active |-> FALSE, last_login |-> Null],
      [id |-> 3, login_key |-> "cy@x.com",  user_active |-> FALSE, last_login |-> "2020-07-30"] }

NoUser == [none |-> TRUE]

\* User.findOne({where: {login_key: address}}): the row, or null
findOne(address) ==
    IF \E u \in Users : u.login_key = address
    THEN CHOOSE u \in Users : u.login_key = address
    ELSE NoUser

Urls == {"/link/abc"}
Addresses == {u.login_key : u \in Users} \cup {"nobody@x.com"}

ActivationInfos ==
    { [recipientAddress |-> u.login_key, userName |-> "Cy", id |-> u.id, url |-> url] :
        u \in {v \in Users : v.login_key = "cy@x.com"}, url \in Urls }

\* sendResetEmail reads recipientAddress and url only; the caller's info also
\* carries an id, which is no user's
ResetInfos ==
    { [recipientAddress |-> a, url |-> url, id |-> 7] : a \in Addresses, url \in Urls }

NoInfo == [none |-> TRUE]
NoRecord == [none |-> TRUE]
NoResult == [none |-> TRUE]

(***************************************************************************)
(* Outcomes of the external calls.                                         *)
(***************************************************************************)
RenderErrors == {"RenderError"}
RenderOutputs == {"<html>link</html>"}
EmptyOutputs == {""}
UniqueConstraintError == "SequelizeUniqueConstraintError"
ConnectionError == "SequelizeConnectionError"

VARIABLES
    pc,          \* per invocation: where its chain of handlers stands
    kind,        \* per invocation: "activate", "reset" or "none"
    info,        \* per invocation: the caller's info argument
    renderInfo,  \* per invocation: renderInfo passed to composeTemporaryLinkEmail
    emailInfo,   \* per invocation: emailInfo passed to composeTemporaryLinkEmail
    rendered,    \* per invocation: what app.render handed its callback
    built,       \* per invocation: the object handed to TemporaryURL.create
    builtAt,     \* per invocation: what Date.now() answered for that object
    created,     \* per invocation: how TemporaryURL.create settled
    sendState,   \* per invocation: the transporter.sendMail call
    calls,       \* per invocation: the calls made of the caller's done
    trace,       \* per invocation: the external calls made, in order
    store        \* the rows of the temporary_url table

vars == <<pc, kind, info, renderInfo, emailInfo, rendered, built, builtAt, created,
          sendState, calls, trace, store>>

(***************************************************************************)
(* One call of the caller's done(err, result, detail).  result is          *)
(* "undefined" (argument not passed), "false" or "record", and then rec is *)
(* the record passed.                                                      *)
(***************************************************************************)
DoneCall(err, res, rec, detail) ==
    [err |-> err, res |-> res, rec |-> rec, detail |-> detail]

\* the callback with its first branch answering done(null, false)
TemporaryLinkCallbackSwallowsError(err, email, rec, detail) ==
    IF email # "record"
    THEN DoneCall(Null, False, NoRecord, Undefined)
    ELSE DoneCall(Null, "record", rec, Undefined)

\* the callback with its second branch answering done(new Error(...))
TemporaryLinkCallbackEmptyAsError(err, email, rec, detail) ==
    IF Truthy(err)
    THEN DoneCall(err, Undefined, NoRecord, Undefined)
    ELSE IF email # "record"
         THEN DoneCall("NoContent", Undefined, NoRecord, Undefined)
         ELSE DoneCall(Null, "record", rec, Undefined)

\* the callback both public operations give composeTemporaryLinkEmail: it
\* declares (err, email) only, so a third argument never reaches the caller
TemporaryLinkCallback(err, email, rec, detail) ==
    IF Truthy(err)
    THEN DoneCall(err, Undefined, NoRecord, Undefined)
    ELSE IF email # "record"
         THEN DoneCall(err, False, NoRecord, Undefined)
         ELSE DoneCall(Null, "record", rec, Undefined)

\* the timespan subtracted from Date.now() instead of added
HoursToMsNegated(hours) == 0 - hours * MsPerHour

\* hours to seconds
HoursToMsAsSeconds(hours) == hours * 3600

\* renderInfo.timespan * 3600000
HoursToMs(hours) == hours * MsPerHour

\* the object literal with from: emailInfo.from || adminEmailAddress
NewTemporaryURLFalsyFrom(rInfo, eInfo, HTML, now) ==
    [ id              |-> rInfo.id,
      expiration_time |-> now + HoursToMs(rInfo.timespan),
      url             |-> rInfo.url,
      email_info      |->
        [ from    |-> IF ~Truthy(Get(eInfo, "from"))
                      THEN adminEmailAddress ELSE Get(eInfo, "from"),
          to      |-> eInfo.to,
          cc      |-> IF IsNullish(Get(eInfo, "cc")) THEN False ELSE Get(eInfo, "cc"),
          bcc     |-> IF IsNullish(Get(eInfo, "bcc")) THEN False ELSE Get(eInfo, "bcc"),
          subject |-> eInfo.subject,
          html    |-> HTML,
          text    |-> eInfo.text ] ]

\* the object literal with a key of its own for each kind of link
NewTemporaryURLTokenKey(rInfo, eInfo, HTML, now) ==
    [ id              |-> rInfo.id * 100 + rInfo.timespan,
      expiration_time |-> now + HoursToMs(rInfo.timespan),
      url             |-> rInfo.url,
      email_info      |->
        [ from    |-> IF IsNullish(Get(eInfo, "from"))
                      THEN adminEmailAddress ELSE Get(eInfo, "from"),
          to      |-> eInfo.to,
          cc      |-> IF IsNullish(Get(eInfo, "cc")) THEN False ELSE Get(eInfo, "cc"),
          bcc     |-> IF IsNullish(Get(eInfo, "bcc")) THEN False ELSE Get(eInfo, "bcc"),
          subject |-> eInfo.subject,
          html    |-> HTML,
          text    |-> eInfo.text ] ]

\* the object literal composeTemporaryLinkEmail passes to TemporaryURL.create
NewTemporaryURL(rInfo, eInfo, HTML, now) ==
    [ id              |-> rInfo.id,
      expiration_time |-> now + HoursToMs(rInfo.timespan),
      url             |-> rInfo.url,
      email_info      |->
        [ from    |-> IF IsNullish(Get(eInfo, "from"))
                      THEN adminEmailAddress ELSE Get(eInfo, "from"),
          to      |-> eInfo.to,
          cc      |-> IF IsNullish(Get(eInfo, "cc")) THEN False ELSE Get(eInfo, "cc"),
          bcc     |-> IF IsNullish(Get(eInfo, "bcc")) THEN False ELSE Get(eInfo, "bcc"),
          subject |-> eInfo.subject,
          html    |-> HTML,
          text    |-> eInfo.text ] ]

\* the render callback without its if (!HTML) branch
RenderBranchNoEmptyCheck(err, HTML) ==
    IF Truthy(err) THEN "error" ELSE "create"

\* the three branches of the render callback
RenderBranch(err, HTML) ==
    IF Truthy(err) THEN "error"
    ELSE IF ~Truthy(HTML) THEN "empty"
    ELSE "create"

\* !user.user_active && user.last_login
NotActivatedMisplacedParen(user) == ~user.user_active /\ Truthy(user.last_login)

\* !(user.user_active || user.last_login)
NotActivated(user) == ~(user.user_active \/ Truthy(user.last_login))

TypeOK ==
    /\ pc \in [Invocations -> {"idle", "lookup", "render", "create", "returned", "raised",
                              "lookupFailed"}]
    /\ kind \in [Invocations -> {"none", "activate", "reset", "compose"}]
    /\ sendState \in [Invocations -> {"none", "pending", "sent", "failed"}]
    /\ builtAt \in [Invocations -> ClockValues \cup {-1}]

Init ==
    /\ pc = [i \in Invocations |-> "idle"]
    /\ kind = [i \in Invocations |-> "none"]
    /\ info = [i \in Invocations |-> NoInfo]
    /\ renderInfo = [i \in Invocations |-> NoInfo]
    /\ emailInfo = [i \in Invocations |-> NoInfo]
    /\ rendered = [i \in Invocations |-> NoResult]
    /\ built = [i \in Invocations |-> NoRecord]
    /\ builtAt = [i \in Invocations |-> -1]
    /\ created = [i \in Invocations |-> "none"]
    /\ sendState = [i \in Invocations |-> "none"]
    /\ calls = [i \in Invocations |-> <<>>]
    /\ trace = [i \in Invocations |-> <<>>]
    /\ store = {}

\* the renderInfo literal of sendActivationEmail
ActivationRenderInfo(inf) ==
    [ template   |-> "activate",
      timespan   |-> ActivateTimespan,
      layout     |-> FALSE,
      page_title |-> <<"Please confirm your account, ", inf.userName>>,
      url        |-> inf.url,
      id         |-> inf.id ]

\* the renderInfo literal of sendResetEmail with id: info.id
ResetRenderInfoCallerId(inf, user) ==
    [ template   |-> "reset",
      timespan   |-> ResetTimespan,
      layout     |-> FALSE,
      page_title |-> <<"How to Reset Your Password">>,
      url        |-> inf.url,
      id         |-> inf.id ]

\* the renderInfo literal of sendResetEmail
ResetRenderInfo(inf, user) ==
    [ template   |-> "reset",
      timespan   |-> ResetTimespan,
      layout     |-> FALSE,
      page_title |-> <<"How to Reset Your Password">>,
      url        |-> inf.url,
      id         |-> user.id ]

\* invocations are numbered in the order they are made
MayStart(i) ==
    /\ pc[i] = "idle"
    /\ \A j \in Invocations : j < i => pc[j] # "idle"

\* composeTemporaryLinkEmail up to its app.render call
composeTemporaryLinkEmail(i, rInfo, eInfo) ==
    /\ renderInfo' = [renderInfo EXCEPT ![i] = rInfo]
    /\ emailInfo' = [emailInfo EXCEPT ![i] = eInfo]
    /\ trace' = [trace EXCEPT ![i] = Append(@, "render")]
    /\ pc' = [pc EXCEPT ![i] = "render"]

sendActivationEmail(i) ==
    /\ MayStart(i)
    /\ \E inf \in ActivationInfos :
        /\ kind' = [kind EXCEPT ![i] = "activate"]
        /\ info' = [info EXCEPT ![i] = inf]
        /\ composeTemporaryLinkEmail(i,
              ActivationRenderInfo(inf),
              [ to      |-> inf.recipientAddress,
                subject |-> <<"Welcome to nealblim.com ", inf.userName, "!">>,
                text    |-> "TO DO" ])
    /\ UNCHANGED <<rendered, built, builtAt, created, sendState, calls, store>>

sendResetEmail(i) ==
    /\ MayStart(i)
    /\ \E inf \in ResetInfos :
        /\ kind' = [kind EXCEPT ![i] = "reset"]
        /\ info' = [info EXCEPT ![i] = inf]
    /\ trace' = [trace EXCEPT ![i] = Append(@, "findOne")]
    /\ pc' = [pc EXCEPT ![i] = "lookup"]
    /\ UNCHANGED <<renderInfo, emailInfo, rendered, built, builtAt, created,
                   sendState, calls, store>>

\* a handler that ends by calling the caller's done; whether the callback
\* returns or raises, nothing of this module runs after it
EndsWithDone(i, call) ==
    /\ calls' = [calls EXCEPT ![i] = Append(@, call)]
    /\ pc' = [pc EXCEPT ![i] = "returned"]

\* the continuation of User.findOne(...).then
findOneResolved(i) ==
    /\ pc[i] = "lookup"
    /\ LET user == findOne(info[i].recipientAddress) IN
        \/ \* !user: done(err, ...) reads err, which no scope declares, and
           \* user.login_key of null: the handler raises before done is called
           /\ user = NoUser
           /\ pc' = [pc EXCEPT ![i] = "raised"]
           /\ UNCHANGED <<renderInfo, emailInfo, calls, trace>>
        \/ /\ user # NoUser
           /\ NotActivated(user)
           /\ EndsWithDone(i, DoneCall(Null, False, NoRecord, NotActivatedMessage))
           /\ UNCHANGED <<renderInfo, emailInfo, trace>>
        \/ /\ user # NoUser
           /\ ~NotActivated(user)
           /\ composeTemporaryLinkEmail(i,
                 ResetRenderInfo(info[i], user),
                 [ to      |-> info[i].recipientAddress,
                   subject |-> <<"nealblim.com -- Reset your Password">>,
                   text    |-> "TO DO" ])
           /\ UNCHANGED calls
    /\ UNCHANGED <<kind, info, rendered, built, builtAt, created, sendState, store>>

\* User.findOne rejects: the chain has no rejection handler
findOneRejected(i) ==
    /\ pc[i] = "lookup"
    /\ pc' = [pc EXCEPT ![i] = "lookupFailed"]
    /\ UNCHANGED <<kind, info, renderInfo, emailInfo, rendered, built, builtAt,
                   created, sendState, calls, trace, store>>

\* what app.render hands its callback: (err) or (null, output)
RenderResults ==
    {<<e, Undefined>> : e \in RenderErrors}
        \cup {<<Null, h>> : h \in RenderOutputs \cup EmptyOutputs}

\* the callback composeTemporaryLinkEmail gives app.render
renderCallback(i) ==
    /\ pc[i] = "render"
    /\ \E r \in RenderResults :
        LET err == r[1]
            HTML == r[2]
            branch == RenderBranch(err, HTML) IN
        /\ rendered' = [rendered EXCEPT ![i] = [err |-> err, HTML |-> HTML]]
        /\ \/ /\ branch = "error"
              /\ EndsWithDone(i, TemporaryLinkCallback(err, Undefined, NoRecord, Undefined))
              /\ UNCHANGED <<built, builtAt, trace>>
           \/ /\ branch = "empty"
              /\ EndsWithDone(i, TemporaryLinkCallback(Null, False, NoRecord, Undefined))
              /\ UNCHANGED <<built, builtAt, trace>>
           \/ /\ branch = "create"
              /\ \E now \in ClockValues :
                   /\ built' = [built EXCEPT ![i] =
                                   NewTemporaryURL(renderInfo[i], emailInfo[i], HTML, now)]
                   /\ builtAt' = [builtAt EXCEPT ![i] = now]
              /\ trace' = [trace EXCEPT ![i] = Append(@, "create")]
              /\ pc' = [pc EXCEPT ![i] = "create"]
              /\ UNCHANGED calls
    /\ UNCHANGED <<kind, info, renderInfo, emailInfo, created, sendState, store>>

\* the temporary_url table takes a row whose primary key, id, is not in use
StoreAccepts(rec) == \A r \in store : r.id # rec.id

\* the rejection handler of the create chain: done(null, false, {message: err})
CatchHandlerCall(err) == TemporaryLinkCallback(Null, False, NoRecord, err)

\* done called from the transport's callback instead of the create chain
CreatedHandlerCallsAwaitSend(newURL, raises) == <<>>

\* the calls of the caller's done that the create chain makes once create has
\* resolved with newURL: done(null, newURL), and when that raises, the
\* rejection handler's call
CreatedHandlerCalls(newURL, raises) ==
    <<TemporaryLinkCallback(Null, "record", newURL, Undefined)>>
        \o (IF raises THEN <<CatchHandlerCall("CallbackError")>> ELSE <<>>)

\* TemporaryURL.create resolves with the new row: sendEmail, then done
createResolved(i) ==
    /\ pc[i] = "create"
    /\ StoreAccepts(built[i])
    /\ store' = store \cup {built[i]}
    /\ created' = [created EXCEPT ![i] = "persisted"]
    /\ trace' = [trace EXCEPT ![i] = Append(@, "send")]
    /\ sendState' = [sendState EXCEPT ![i] = "pending"]
    /\ \E raises \in BOOLEAN :
        calls' = [calls EXCEPT ![i] = @ \o CreatedHandlerCalls(built[i], raises)]
    /\ pc' = [pc EXCEPT ![i] = "returned"]
    /\ UNCHANGED <<kind, info, renderInfo, emailInfo, rendered, built, builtAt>>

\* TemporaryURL.create resolves with no row: the handler does nothing
createResolvedEmpty(i) ==
    /\ pc[i] = "create"
    /\ StoreAccepts(built[i])
    /\ created' = [created EXCEPT ![i] = "empty"]
    /\ pc' = [pc EXCEPT ![i] = "returned"]
    /\ UNCHANGED <<kind, info, renderInfo, emailInfo, rendered, built, builtAt, sendState,
                   calls, trace, store>>

\* the errors TemporaryURL.create may reject with
CreateErrors(rec) ==
    IF StoreAccepts(rec) THEN {ConnectionError}
    ELSE {UniqueConstraintError, ConnectionError}

\* a rejection handler that calls TemporaryURL.create a second time
createRejectedRetries(i) ==
    /\ pc[i] = "create"
    /\ Len(trace[i]) < 4
    /\ \E err \in CreateErrors(built[i]) :
        created' = [created EXCEPT ![i] = err]
    /\ trace' = [trace EXCEPT ![i] = Append(@, "create")]
    /\ UNCHANGED <<pc, kind, info, renderInfo, emailInfo, rendered, built, builtAt,
                   sendState, calls, store>>

\* TemporaryURL.create rejects: the rejection handler
createRejected(i) ==
    /\ pc[i] = "create"
    /\ \E err \in CreateErrors(built[i]) :
        /\ created' = [created EXCEPT ![i] = err]
        /\ EndsWithDone(i, CatchHandlerCall(err))
    /\ UNCHANGED <<kind, info, renderInfo, emailInfo, rendered, built, builtAt, sendState,
                   trace, store>>

\* the callback sendEmail gives transporter.sendMail, which reports the outcome
\* of the send to it, if it ever does: it only logs
sendMailCallback(i) ==
    /\ sendState[i] = "pending"
    /\ \E err \in {Null, "SendmailError"} :
        sendState' = [sendState EXCEPT ![i] = IF Truthy(err) THEN "failed" ELSE "sent"]
    /\ UNCHANGED <<pc, kind, info, renderInfo, emailInfo, rendered, built, builtAt, created,
                   calls, trace, store>>

Next ==
    \E i \in Invocations :
        \/ sendActivationEmail(i)
        \/ sendResetEmail(i)
        \/ findOneResolved(i)
        \/ findOneRejected(i)
        \/ renderCallback(i)
        \/ createResolved(i)
        \/ createResolvedEmpty(i)
        \/ createRejected(i)
        \/ sendMailCallback(i)

Spec == Init /\ [][Next]_vars

(***************************************************************************)
(* composeTemporaryLinkEmail on its own: called once, with any renderInfo  *)
(* and emailInfo of its parameter types, and in particular with an         *)
(* emailInfo that has, or has not, a from, a cc and a bcc.                 *)
(***************************************************************************)
\* an object with no property
NoProperties == [f \in {} |-> Undefined]

\* the ways an object literal may carry (or not carry) one property
Optional(field, values) == {NoProperties} \cup {field :> v : v \in values}

ComposeEmailInfos ==
    { [to |-> "cy@x.com", subject |-> <<"subject">>, text |-> "plain text"]
          @@ from @@ cc @@ bcc :
        from \in Optional("from", {Null, "", "admin@nealblim.com"}),
        cc \in Optional("cc", {Null, "cc@x.com"}),
        bcc \in Optional("bcc", {"bcc@x.com"}) }

ComposeRenderInfos ==
    {ActivationRenderInfo(inf) : inf \in ActivationInfos}
        \cup {ResetRenderInfo(inf, findOne("ann@x.com")) : inf \in ResetInfos}

InitCompose ==
    /\ \E rInfo \in ComposeRenderInfos, eInfo \in ComposeEmailInfos :
        /\ renderInfo = [i \in Invocations |-> IF i = 1 THEN rInfo ELSE NoInfo]
        /\ emailInfo = [i \in Invocations |-> IF i = 1 THEN eInfo ELSE NoInfo]
    /\ pc = [i \in Invocations |-> IF i = 1 THEN "render" ELSE "idle"]
    /\ kind = [i \in Invocations |-> IF i = 1 THEN "compose" ELSE "none"]
    /\ trace = [i \in Invocations |-> IF i = 1 THEN <<"render">> ELSE <<>>]
    /\ info = [i \in Invocations |-> NoInfo]
    /\ rendered = [i \in Invocations |-> NoResult]
    /\ built = [i \in Invocations |-> NoRecord]
    /\ builtAt = [i \in Invocations |-> -1]
    /\ created = [i \in Invocations |-> "none"]
    /\ sendState = [i \in Invocations |-> "none"]
    /\ calls = [i \in Invocations |-> <<>>]
    /\ store = {}

NextCompose ==
    \E i \in Invocations :
        \/ renderCallback(i)
        \/ createResolved(i)
        \/ createResolvedEmpty(i)
        \/ createRejected(i)
        \/ sendMailCallback(i)

SpecCompose == InitCompose /\ [][NextCompose]_vars

(***************************************************************************)
(* Vocabulary of the properties.                                           *)
(***************************************************************************)
Made(i, call) == \E k \in DOMAIN trace[i] : trace[i][k] = call

LookupDone(i) == kind[i] = "reset" /\ pc[i] \notin {"idle", "lookup", "lookupFailed"}

FoundUser(i) == findOne(info[i].recipientAddress)

ReportsSuccess(i) == \E k \in DOMAIN calls[i] : calls[i][k].res = "record"

ReportsFailure(i) == \E k \in DOMAIN calls[i] : calls[i][k].res # "record"

CreateFailed(i) == created[i] \in {UniqueConstraintError, ConnectionError}

NoExternalWork(i) ==
    /\ ~Made(i, "render")
    /\ ~Made(i, "create")
    /\ ~Made(i, "send")
    /\ built[i] = NoRecord
    /\ created[i] = "none"
    /\ sendState[i] = "none"

NothingPersistedOrSent(i) ==
    /\ ~Made(i, "create")
    /\ ~Made(i, "send")
    /\ built[i] = NoRecord
    /\ created[i] = "none"
    /\ sendState[i] = "none"

(***************************************************************************)
(* C1: a reset request whose lookup finds no user has its callback called  *)
(* once with a failed result (false) and a message, and makes no render,   *)
(* no create and no send.                                                  *)
(***************************************************************************)
C1_NotFoundReported ==
    \A i \in Invocations :
        (LookupDone(i) /\ FoundUser(i) = NoUser) =>
            /\ Len(calls[i]) = 1
            /\ calls[i][1].res = False
            /\ calls[i][1].detail # Undefined
            /\ NoExternalWork(i)

(***************************************************************************)
(* C2: when TemporaryURL.create fails, the caller's callback receives a    *)
(* failure that carries the store's error, as its error or as its detail.  *)
(***************************************************************************)
C2_StoreErrorReachesCaller ==
    \A i \in Invocations :
        CreateFailed(i) =>
            /\ Len(calls[i]) = 1
            /\ calls[i][1].res # "record"
            /\ \/ calls[i][1].err = created[i]
               \/ calls[i][1].detail = created[i]

(***************************************************************************)
(* C3: the external calls of an invocation come in the order render,       *)
(* create, send: create directly follows a render that gave non-empty      *)
(* output without error, send directly follows a create that persisted the *)
(* row; after a render error, an empty render or a failed create there is  *)
(* no send.                                                                *)
(***************************************************************************)
C3_RenderCreateSendOrder ==
    \A i \in Invocations :
        /\ \A k \in DOMAIN trace[i] :
            /\ trace[i][k] = "create" =>
                /\ k > 1
                /\ trace[i][k - 1] = "render"
                /\ rendered[i] # NoResult
                /\ rendered[i].err = Null
                /\ rendered[i].HTML \notin {"", Undefined, Null}
            /\ trace[i][k] = "send" =>
                /\ k > 1
                /\ trace[i][k - 1] = "create"
                /\ created[i] = "persisted"
                /\ built[i] \in store
        /\ (rendered[i] # NoResult /\ rendered[i].err # Null) => ~Made(i, "send")
        /\ (rendered[i] # NoResult /\ rendered[i].HTML = "") => ~Made(i, "send")
        /\ CreateFailed(i) => ~Made(i, "send")

C3_Witness ==
    \E i, j \in Invocations :
        /\ trace[i] = <<"render", "create", "send">>
        /\ CreateFailed(j)
        /\ trace[j] = <<"findOne", "render", "create">>

(***************************************************************************)
(* C4: a reset request for a user that is not active and has never logged  *)
(* in has its callback called with (null, false, "You must activate your   *)
(* account first.") and makes no render, no create and no send.            *)
(***************************************************************************)
C4_NotActivatedRefused ==
    \A i \in Invocations :
        (/\ LookupDone(i)
         /\ FoundUser(i) # NoUser
         /\ FoundUser(i).user_active = FALSE
         /\ FoundUser(i).last_login = Null) =>
            /\ calls[i] = << [ err    |-> Null,
                               res    |-> False,
                               rec    |-> NoRecord,
                               detail |-> "You must activate your account first." ] >>
            /\ NoExternalWork(i)

C4_Witness ==
    \E i \in Invocations :
        /\ LookupDone(i)
        /\ info[i].recipientAddress = "bob@x.com"
        /\ Len(calls[i]) = 1

C6_ExpirationTime ==
    \A i \in Invocations :
        built[i] # NoRecord =>
            /\ kind[i] = "activate" => built[i].expiration_time = builtAt[i] + 86400000
            /\ kind[i] = "reset" => built[i].expiration_time = builtAt[i] + 7200000
            /\ created[i] = "persisted" =>
                \E r \in store :
                    /\ r.id = renderInfo[i].id
                    /\ r.expiration_time = built[i].expiration_time

C6_Witness ==
    \E i, j \in Invocations :
        /\ kind[i] = "activate"
        /\ kind[j] = "reset"
        /\ created[i] = "persisted"
        /\ created[j] = "persisted"
        /\ builtAt[i] # builtAt[j]

(***************************************************************************)
(* C7: when the renderer answers without error and with empty output, no   *)
(* row is persisted, no mail is sent and the callback is called once with  *)
(* (null, false).                                                          *)
(***************************************************************************)
C7_EmptyRender ==
    \A i \in Invocations :
        (rendered[i] # NoResult /\ rendered[i].err = Null /\ rendered[i].HTML = "") =>
            /\ NothingPersistedOrSent(i)
            /\ \A r \in store : r.id # renderInfo[i].id \/
                   \E j \in Invocations \ {i} : created[j] = "persisted" /\ built[j] = r
            /\ Len(calls[i]) = 1
            /\ calls[i][1].err = Null
            /\ calls[i][1].res = False

C7_Witness ==
    \E i \in Invocations :
        /\ rendered[i] # NoResult
        /\ rendered[i].HTML = ""
        /\ Len(calls[i]) = 1

(***************************************************************************)
(* C8: when the renderer answers with an error, the callback is called     *)
(* once with that error as its error argument, no row is created and no    *)
(* mail is sent.                                                           *)
(***************************************************************************)
C8_RenderErrorPropagated ==
    \A i \in Invocations :
        (rendered[i] # NoResult /\ rendered[i].err # Null) =>
            /\ Len(calls[i]) = 1
            /\ calls[i][1].err = rendered[i].err
            /\ calls[i][1].res = Undefined
            /\ NothingPersistedOrSent(i)

C8_Witness ==
    \E i \in Invocations :
        /\ rendered[i] # NoResult
        /\ rendered[i].err = "RenderError"
        /\ Len(calls[i]) = 1

(***************************************************************************)
(* C9: an invocation whose callback reports success has created exactly    *)
(* one row, an invocation whose callback reports failure has created none, *)
(* and a send is attempted only by an invocation that created its row.     *)
(***************************************************************************)
C9_RowIffSuccess ==
    \A i \in Invocations :
        /\ ReportsSuccess(i) =>
            /\ created[i] = "persisted"
            /\ Cardinality({r \in store : r.id = built[i].id}) = 1
        /\ ReportsFailure(i) => created[i] # "persisted"
        /\ Made(i, "send") => created[i] = "persisted"

(***************************************************************************)
(* C10: the store holds at most one row per user id; a create for a user   *)
(* whose row is already there adds no second row, and that invocation ends *)
(* with a failure reported (null, false) and no mail sent.                 *)
(***************************************************************************)
C10_OneLinkPerUser ==
    /\ [](/\ \A i, j \in Invocations :
              (/\ i # j
               /\ created[i] = "persisted"
               /\ created[j] = "persisted") => renderInfo[i].id # renderInfo[j].id
          /\ \A r1, r2 \in store : r1.id = r2.id => r1 = r2
          /\ \A i \in Invocations :
              created[i] = UniqueConstraintError =>
                  /\ \E j \in Invocations \ {i} :
                      /\ created[j] = "persisted"
                      /\ renderInfo[j].id = renderInfo[i].id
                  /\ sendState[i] = "none"
                  /\ ~Made(i, "send")
                  /\ Len(calls[i]) = 1
                  /\ calls[i][1].res = False)
    /\ [][\A i \in Invocations :
            (/\ pc[i] = "create"
             /\ pc'[i] # "create"
             /\ \E j \in Invocations \ {i} :
                 /\ created[j] = "persisted"
                 /\ renderInfo[j].id = renderInfo[i].id) =>
                /\ store' = store
                /\ created'[i] \in {UniqueConstraintError, ConnectionError}
                /\ sendState'[i] = "none"
                /\ Len(calls'[i]) = 1
                /\ calls'[i][1].err = Null
                /\ calls'[i][1].res = False]_vars

C10_Witness ==
    \E i, j \in Invocations :
        /\ kind[i] = "activate"
        /\ kind[j] = "reset"
        /\ created[i] = "persisted"
        /\ created[j] = UniqueConstraintError
        /\ renderInfo[i].id = renderInfo[j].id

(***************************************************************************)
(* C11: a reset request whose lookup finds a user that is active or has    *)
(* logged in goes on to render with template "reset" and the 2 hour        *)
(* timespan, and the row it builds has the found user's id, not the id the *)
(* caller put in info; the row of an activation request has info.id.       *)
(***************************************************************************)
C11_ResetUsesFoundUserId ==
    \A i \in Invocations :
        /\ (/\ LookupDone(i)
            /\ FoundUser(i) # NoUser
            /\ (FoundUser(i).user_active \/ FoundUser(i).last_login # Null)) =>
                /\ Len(trace[i]) >= 2
                /\ trace[i][2] = "render"
                /\ renderInfo[i].template = "reset"
                /\ renderInfo[i].timespan = 2
                /\ renderInfo[i].url = info[i].url
                /\ emailInfo[i].to = info[i].recipientAddress
                /\ built[i] # NoRecord =>
                    /\ built[i].id = FoundUser(i).id
                    /\ built[i].id # info[i].id
        /\ (kind[i] = "activate" /\ built[i] # NoRecord) =>
                /\ renderInfo[i].template = "activate"
                /\ built[i].id = info[i].id

C11_Witness ==
    \E i, j \in Invocations :
        /\ kind[i] = "reset"
        /\ FoundUser(i) # NoUser
        /\ FoundUser(i).user_active
        /\ created[i] = "persisted"
        /\ kind[j] = "activate"
        /\ created[j] = "persisted"

Count(i, call) == Cardinality({k \in DOMAIN trace[i] : trace[i][k] = call})

LastCall(i) == trace[i][Len(trace[i])]

(***************************************************************************)
(* C12: an invocation makes each external call (the lookup, render, create *)
(* and send) at most once, and the call that failed is the last external   *)
(* call it makes.                                                          *)
(***************************************************************************)
C12_NoRetries ==
    \A i \in Invocations :
        /\ \A call \in {"findOne", "render", "create", "send"} : Count(i, call) <= 1
        /\ pc[i] = "lookupFailed" => trace[i] = <<"findOne">>
        /\ (rendered[i] # NoResult /\ rendered[i].err # Null) => LastCall(i) = "render"
        /\ CreateFailed(i) => LastCall(i) = "create"
        /\ sendState[i] = "failed" => LastCall(i) = "send"

C12_Witness ==
    \E i, j \in Invocations :
        /\ sendState[i] = "failed"
        /\ CreateFailed(j)
        /\ pc[j] = "returned"

Supplied(obj, field) == field \in DOMAIN obj /\ obj[field] \notin {Null, Undefined}

(***************************************************************************)
(* C13: in the row composeTemporaryLinkEmail builds, email_info.from is    *)
(* 'no-reply@nealblim.com' when emailInfo has no from (absent or null) and *)
(* emailInfo.from otherwise; cc and bcc are emailInfo's when it has them   *)
(* and false when not; html is the rendered output and text is             *)
(* emailInfo.text.                                                         *)
(***************************************************************************)
C13_EmailInfoDefaults ==
    \A i \in Invocations :
        built[i] # NoRecord =>
            LET e == emailInfo[i]
                m == built[i].email_info IN
            /\ m.from = IF Supplied(e, "from") THEN e.from ELSE "no-reply@nealblim.com"
            /\ m.cc = IF Supplied(e, "cc") THEN e.cc ELSE "false"
            /\ m.bcc = IF Supplied(e, "bcc") THEN e.bcc ELSE "false"
            /\ m.html = rendered[i].HTML
            /\ m.text = e.text
            /\ m.to = e.to
            /\ m.subject = e.subject

C13_Witness ==
    \E i \in Invocations :
        /\ created[i] = "persisted"
        /\ Supplied(emailInfo[i], "from")
        /\ emailInfo[i].from = ""
        /\ "cc" \notin DOMAIN emailInfo[i]
        /\ Supplied(emailInfo[i], "bcc")
        /\ built[i].email_info.from = ""

(***************************************************************************)
(* C14: every row handed to TemporaryURL.create by sendActivationEmail or  *)
(* sendResetEmail has an expiration_time strictly greater than the clock   *)
(* value read when the row was built.                                      *)
(***************************************************************************)
C14_ExpiresInTheFuture ==
    \A i \in Invocations :
        Made(i, "create") =>
            /\ built[i] # NoRecord
            /\ built[i].expiration_time > builtAt[i]
            /\ builtAt[i] \in ClockValues

C14_Witness ==
    \E i, j \in Invocations :
        /\ kind[i] = "activate"
        /\ kind[j] = "reset"
        /\ Made(i, "create")
        /\ Made(j, "create")
        /\ builtAt[i] > 0

HandlersEnded(i) == pc[i] \in {"returned", "raised", "lookupFailed"}

(***************************************************************************)
(* C15: once every external call of an invocation has answered and its     *)
(* handlers have run, the caller's callback has been called; this includes *)
(* the branches user not found, lookup failure, create resolving with no   *)
(* row and create rejecting.                                               *)
(***************************************************************************)
C15_CallbackCalled ==
    \A i \in Invocations : HandlersEnded(i) => Len(calls[i]) >= 1

(***************************************************************************)
(* C16: the caller's callback is called at most once per invocation, and a *)
(* call reporting success is never followed by a call reporting failure.   *)
(***************************************************************************)
C16_CallbackAtMostOnce ==
    \A i \in Invocations :
        /\ Len(calls[i]) <= 1
        /\ \A k, l \in DOMAIN calls[i] :
            (k < l /\ calls[i][k].res = "record") => calls[i][l].res = "record"
====
